---- MODULE Spec2Model ----
(***************************************************************************)
(* Model of the pediatric insensible-water-loss calculator                 *)
(* (src/pediatric-iwl-calculator.tsx): the component state of              *)
(* PediatricIWLCalculator, its input handlers, the recompute effect, and   *)
(* calculateResults with the getNormalRR lookup it uses.                   *)
(*                                                                         *)
(* Text fields are JavaScript strings, modelled as sequences of one-       *)
(* character strings (<<"8", ".", "5">> is "8.5", <<>> is "").             *)
(*                                                                         *)
(* JavaScript numbers are modelled as decimal fixed-point values with      *)
(* four fractional digits: Num(n) stands for n / Scale, NaN for NaN.  As   *)
(* IEEE arithmetic rounds the exact result of every operation to the       *)
(* nearest double, every operation here rounds its exact result to the     *)
(* nearest multiple of 1 / Scale.                                          *)
(***************************************************************************)
EXTENDS Integers, Sequences, FiniteSets, TLC

VARIABLES height, weight, temperature, respiratoryRate, additionalFactors, results,
          effectPending

\* effectPending: a render has changed a dependency of the effect and the
\* effect has not run yet
vars == <<height, weight, temperature, respiratoryRate, additionalFactors, results,
          effectPending>>

----------------------------------------------------------------------------
(* JavaScript numbers *)

Scale == 10 * 10 * 10 * 10

\* the decimal literal n / d, for d a power of ten up to Scale
Lit(n, d) == [v |-> n * (Scale \div d)]

NaN == [nan |-> TRUE]

Num(n) == [v |-> n]

IsNaN(x) == x = NaN

\* n / d rounded to the nearest integer, for d > 0
RoundDiv(n, d) == IF 2 * (n % d) >= d THEN (n \div d) + 1 ELSE n \div d

Add(a, b) == IF IsNaN(a) \/ IsNaN(b) THEN NaN ELSE Num(a.v + b.v)

Sub(a, b) == IF IsNaN(a) \/ IsNaN(b) THEN NaN ELSE Num(a.v - b.v)

Mul(a, b) ==
    IF IsNaN(a) \/ IsNaN(b) THEN NaN
    ELSE LET ah == a.v \div Scale
             al == a.v % Scale
             bh == b.v \div Scale
             bl == b.v % Scale
         IN  Num(ah * bh * Scale + ah * bl + al * bh + RoundDiv(al * bl, Scale))

RECURSIVE LongDiv(_, _, _)
\* r * unit / d rounded to the nearest integer, for 0 <= r < d and unit a power
\* of ten, one decimal digit at a time
LongDiv(r, d, unit) ==
    IF unit = 1 THEN (IF 2 * r >= d THEN 1 ELSE 0)
    ELSE ((r * 10) \div d) * (unit \div 10) + LongDiv((r * 10) % d, d, unit \div 10)

\* the quotient a / b, for b > 0
Div(a, b) ==
    IF IsNaN(a) \/ IsNaN(b) THEN NaN
    ELSE Num((a.v \div b.v) * Scale + LongDiv(a.v % b.v, b.v, Scale))

RECURSIVE FloorSqrt(_, _, _)
\* the largest s in lo..hi with s * s <= n
FloorSqrt(n, lo, hi) ==
    IF lo >= hi THEN lo
    ELSE LET mid == (lo + hi + 1) \div 2
         IN  IF mid * mid <= n THEN FloorSqrt(n, mid, hi)
             ELSE FloorSqrt(n, lo, mid - 1)

\* Math.sqrt: NaN for a negative argument
Sqrt(a) ==
    IF IsNaN(a) THEN NaN
    ELSE IF a.v < 0 THEN NaN
    ELSE LET n == a.v * Scale
             s == FloorSqrt(n, 0, 4 * Scale)
         IN  Num(IF n - s * s > s THEN s + 1 ELSE s)

\* a > b and a < b: false when either side is NaN
Gt(a, b) == ~IsNaN(a) /\ ~IsNaN(b) /\ a.v > b.v

Lt(a, b) == ~IsNaN(a) /\ ~IsNaN(b) /\ a.v < b.v

\* x || y on numbers: NaN and 0 are falsy
OrElse(x, y) == IF IsNaN(x) THEN y ELSE IF x.v = 0 THEN y ELSE x

----------------------------------------------------------------------------
(* parseFloat and Number.prototype.toFixed *)

DigitChars == <<"0", "1", "2", "3", "4", "5", "6", "7", "8", "9">>

IsDigit(c) == \E d \in 1..10 : DigitChars[d] = c

DigitVal(c) == (CHOOSE d \in 1..10 : DigitChars[d] = c) - 1

RECURSIVE DigitRun(_, _)
\* number of leading digits of s from position i on
DigitRun(s, i) ==
    IF i > Len(s) THEN 0
    ELSE IF IsDigit(s[i]) THEN 1 + DigitRun(s, i + 1)
    ELSE 0

RECURSIVE DigitsValue(_, _, _)
\* the value of the k digits of s that start at position i
DigitsValue(s, i, k) ==
    IF k = 0 THEN 0
    ELSE DigitsValue(s, i, k - 1) * 10 + DigitVal(s[i + k - 1])

\* parseFloat(s) for s of the shape [-]digits[.digits]: the longest numeric
\* prefix, NaN when there is none
parseFloat(s) ==
    LET neg  == Len(s) > 0 /\ s[1] = "-"
        from == IF neg THEN 2 ELSE 1
        ip   == DigitRun(s, from)
        dot  == from + ip <= Len(s) /\ s[from + ip] = "."
        fp   == IF dot THEN DigitRun(s, from + ip + 1) ELSE 0
        fd(k) == IF k <= fp THEN DigitVal(s[from + ip + k]) ELSE 0
        mag  == DigitsValue(s, from, ip) * Scale
                  + fd(1) * 1000 + fd(2) * 100 + fd(3) * 10 + fd(4)
                  + (IF fd(5) >= 5 THEN 1 ELSE 0)
    IN  IF ip = 0 /\ fp = 0 THEN NaN
        ELSE Num(IF neg THEN 0 - mag ELSE mag)

\* x.toFixed(digits), digits in 0..4: the decimal string with that many
\* fractional digits, held as the number it denotes ("NaN" as NaN); ties round
\* away from zero
toFixed(x, digits) ==
    IF IsNaN(x) THEN NaN
    ELSE LET unit == Scale \div (10 ^ digits)
             mag  == RoundDiv(IF x.v < 0 THEN 0 - x.v ELSE x.v, unit) * unit
         IN  Num(IF x.v < 0 THEN 0 - mag ELSE mag)

----------------------------------------------------------------------------
(* The component *)

null == [null |-> TRUE]

Factors == {"phototherapy", "radiantWarmer", "lowHumidity", "burns"}

\* getNormalRR with inclusive bounds (<= for <)
getNormalRRInclusive(weightKg) ==
    IF ~Gt(weightKg, Lit(3, 1)) THEN [min |-> 30, max |-> 60, age |-> "Newborn"]
    ELSE IF ~Gt(weightKg, Lit(5, 1)) THEN [min |-> 30, max |-> 50, age |-> "0-3 months"]
    ELSE IF ~Gt(weightKg, Lit(8, 1)) THEN [min |-> 25, max |-> 40, age |-> "3-6 months"]
    ELSE IF ~Gt(weightKg, Lit(12, 1)) THEN [min |-> 20, max |-> 35, age |-> "6-12 months"]
    ELSE IF ~Gt(weightKg, Lit(20, 1)) THEN [min |-> 20, max |-> 30, age |-> "1-3 years"]
    ELSE [min |-> 15, max |-> 25, age |-> "3+ years"]

getNormalRR(weightKg) ==
    IF Lt(weightKg, Lit(3, 1)) THEN [min |-> 30, max |-> 60, age |-> "Newborn"]
    ELSE IF Lt(weightKg, Lit(5, 1)) THEN [min |-> 30, max |-> 50, age |-> "0-3 months"]
    ELSE IF Lt(weightKg, Lit(8, 1)) THEN [min |-> 25, max |-> 40, age |-> "3-6 months"]
    ELSE IF Lt(weightKg, Lit(12, 1)) THEN [min |-> 20, max |-> 35, age |-> "6-12 months"]
    ELSE IF Lt(weightKg, Lit(20, 1)) THEN [min |-> 20, max |-> 30, age |-> "1-3 years"]
    ELSE [min |-> 15, max |-> 25, age |-> "3+ years"]

\* const bsa = Math.sqrt((heightCm * weightKg) / 3600)
BsaOf(heightCm, weightKg) == Sqrt(Div(Mul(heightCm, weightKg), Lit(3600, 1)))

\* the fever adjustment without its temp > 37 guard
FeverAdjustmentOfUnguarded(temp) == Mul(Sub(temp, Lit(37, 1)), Lit(13, 100))

\* const feverAdjustment = temp > 37 ? (temp - 37) * 0.13 : 0
FeverAdjustmentOf(temp) ==
    IF Gt(temp, Lit(37, 1)) THEN Mul(Sub(temp, Lit(37, 1)), Lit(13, 100))
    ELSE Lit(0, 1)

\* the respiratory adjustment measured from the band's min instead of its max
RrAdjustmentOfAboveMin(rr, normalRR, weightKg) ==
    IF Gt(rr, Lit(normalRR.min, 1))
    THEN Mul(Mul(Sub(rr, Lit(normalRR.min, 1)), Lit(2, 1)), weightKg)
    ELSE Lit(0, 1)

\* the respiratory adjustment without its rr > normalRR.max guard
RrAdjustmentOfUnguarded(rr, normalRR, weightKg) ==
    Mul(Mul(Sub(rr, Lit(normalRR.max, 1)), Lit(2, 1)), weightKg)

\* let rrAdjustment = 0; if (rr > normalRR.max) rrAdjustment = (rr - normalRR.max) * 2 * weightKg
RrAdjustmentOf(rr, normalRR, weightKg) ==
    IF Gt(rr, Lit(normalRR.max, 1))
    THEN Mul(Mul(Sub(rr, Lit(normalRR.max, 1)), Lit(2, 1)), weightKg)
    ELSE Lit(0, 1)

\* the risk-factor adjustment as an else-if chain: only the first selected flag counts
AdditionalAdjustmentOfFirstOnly(factors, baseIWL_low) ==
    IF factors.phototherapy THEN Mul(baseIWL_low, Lit(2, 10))
    ELSE IF factors.radiantWarmer THEN Mul(baseIWL_low, Lit(3, 10))
    ELSE IF factors.lowHumidity THEN Mul(baseIWL_low, Lit(25, 100))
    ELSE IF factors.burns THEN Mul(baseIWL_low, Lit(5, 10))
    ELSE Lit(0, 1)

\* let additionalAdjustment = 0; if (additionalFactors.x) additionalAdjustment += baseIWL_low * k
AdditionalAdjustmentOf(factors, baseIWL_low) ==
    LET a0 == Lit(0, 1)
        a1 == IF factors.phototherapy THEN Add(a0, Mul(baseIWL_low, Lit(2, 10))) ELSE a0
        a2 == IF factors.radiantWarmer THEN Add(a1, Mul(baseIWL_low, Lit(3, 10))) ELSE a1
        a3 == IF factors.lowHumidity THEN Add(a2, Mul(baseIWL_low, Lit(25, 100))) ELSE a2
        a4 == IF factors.burns THEN Add(a3, Mul(baseIWL_low, Lit(5, 10))) ELSE a3
    IN  a4

\* the fever multiplier applied to the whole sum
AdjustedOfFeverOnAll(base, feverMultiplier, rrAdjustment, additionalAdjustment) ==
    Mul(Add(Add(base, rrAdjustment), additionalAdjustment), feverMultiplier)

\* (base * feverMultiplier) + rrAdjustment + additionalAdjustment
AdjustedOf(base, feverMultiplier, rrAdjustment, additionalAdjustment) ==
    Add(Add(Mul(base, feverMultiplier), rrAdjustment), additionalAdjustment)

\* adjusted / 24
HourlyOf(adjusted) == Div(adjusted, Lit(24, 1))

\* the guard applied to the parsed numbers (!heightCm || !weightKg): 0 is falsy too
MissingOrZero(h, w) ==
    \/ h = <<>>
    \/ w = <<>>
    \/ parseFloat(h) = Lit(0, 1)
    \/ parseFloat(w) = Lit(0, 1)

\* !height || !weight: the empty string is the only falsy string
Missing(h, w) == h = <<>> \/ w = <<>>

\* calculateResults() run on the given component state: the value results
\* holds afterwards (prev when it returns without calling setResults)
calculateResults(h, w, t, r, factors, prev) ==
    IF Missing(h, w) THEN prev
    ELSE LET heightCm == parseFloat(h)
             weightKg == parseFloat(w)
             temp     == parseFloat(t)
             rr       == OrElse(parseFloat(r), Lit(0, 1))
             bsa      == BsaOf(heightCm, weightKg)
             baseIWL_low  == Mul(bsa, Lit(400, 1))
             baseIWL_high == Mul(bsa, Lit(500, 1))
             weightBasedIWL_low  == Mul(weightKg, Lit(15, 1))
             weightBasedIWL_high == Mul(weightKg, Lit(20, 1))
             feverAdjustment == FeverAdjustmentOf(temp)
             feverMultiplier == Add(Lit(1, 1), feverAdjustment)
             normalRR     == getNormalRR(weightKg)
             rrAdjustment == RrAdjustmentOf(rr, normalRR, weightKg)
             additionalAdjustment == AdditionalAdjustmentOf(factors, baseIWL_low)
             adjustedIWL_low  ==
                 AdjustedOf(baseIWL_low, feverMultiplier, rrAdjustment, additionalAdjustment)
             adjustedIWL_high ==
                 AdjustedOf(baseIWL_high, feverMultiplier, rrAdjustment, additionalAdjustment)
         IN  [bsa |-> toFixed(bsa, 3),
              baseIWL_low |-> toFixed(baseIWL_low, 0),
              baseIWL_high |-> toFixed(baseIWL_high, 0),
              weightBasedIWL_low |-> toFixed(weightBasedIWL_low, 0),
              weightBasedIWL_high |-> toFixed(weightBasedIWL_high, 0),
              adjustedIWL_low |-> toFixed(adjustedIWL_low, 0),
              adjustedIWL_high |-> toFixed(adjustedIWL_high, 0),
              hourlyRate_low |-> toFixed(HourlyOf(adjustedIWL_low), 1),
              hourlyRate_high |-> toFixed(HourlyOf(adjustedIWL_high), 1),
              feverAdjustment |-> toFixed(Mul(feverAdjustment, Lit(100, 1)), 1),
              rrAdjustment |-> toFixed(rrAdjustment, 0),
              normalRR |-> normalRR,
              additionalAdjustment |-> toFixed(additionalAdjustment, 0)]

----------------------------------------------------------------------------
(* What the number inputs hand to the handlers: e.target.value *)

RECURSIVE NatStr(_)
NatStr(n) ==
    IF n < 10 THEN <<DigitChars[n + 1]>>
    ELSE Append(NatStr(n \div 10), DigitChars[(n % 10) + 1])

\* the text of the decimal with t tenths: 85 is "8.5", 770 is "77", -40 is "-4"
TenthsStr(t) ==
    LET m == IF t < 0 THEN 0 - t ELSE t
        s == NatStr(m \div 10) \o (IF m % 10 = 0 THEN <<>> ELSE <<".", DigitChars[(m % 10) + 1]>>)
    IN  IF t < 0 THEN <<"-">> \o s ELSE s

Sample(list, k) == {TenthsStr(list[i]) : i \in 1..(IF k < Len(list) THEN k ELSE Len(list))}

HeightSamples == <<770, 0, 1000, -500, 550>>

WeightSamples == <<85, 30, 0, 200, -40, 29, 120>>

TemperatureSamples == <<390, 365, 371, 405, 370>>

RespiratoryRateSamples == <<550, 250, 0, 610, 400, 410>>

UIHeightCount == 1

UIWeightCount == 1

UITemperatureCount == 1

UIRespiratoryRateCount == 1

CalcHeightCount == 4

CalcWeightCount == 6

CalcTemperatureCount == 4

CalcRespiratoryRateCount == 4

MaxWeightTenths == 250

----------------------------------------------------------------------------
(* State machine *)
(* An input event is one action: the onChange handler sets the field, React *)
(* renders again, and because the field is a dependency of the effect the   *)
(* effect runs calculateResults on the new state before the next event.     *)

\* useState initial values, after the effect of the first render (which returns
\* at once, height being empty)
Init ==
    /\ height = <<>>
    /\ weight = <<>>
    /\ temperature = <<"3", "7">>
    /\ respiratoryRate = <<>>
    /\ additionalFactors = [f \in Factors |-> FALSE]
    /\ results = null
    /\ effectPending = FALSE

\* an effect that keeps a result once there is one
useEffectCached(h, w, t, r, factors, prev) ==
    IF prev # null THEN prev ELSE calculateResults(h, w, t, r, factors, prev)

\* the effect that follows every render in which a dependency changed
useEffect(h, w, t, r, factors, prev) == calculateResults(h, w, t, r, factors, prev)

\* a toggle that only ever switches the flag on
ToggleFactorSetOnly(prev, factor) == [prev EXCEPT ![factor] = TRUE]

\* setAdditionalFactors(prev => ({...prev, [factor]: !prev[factor]}))
ToggleFactor(prev, factor) == [prev EXCEPT ![factor] = ~prev[factor]]

setHeight(v) ==
    /\ v # height
    /\ height' = v
    /\ results' = useEffect(v, weight, temperature, respiratoryRate, additionalFactors, results)
    /\ UNCHANGED <<weight, temperature, respiratoryRate, additionalFactors, effectPending>>

setWeight(v) ==
    /\ v # weight
    /\ weight' = v
    /\ results' = useEffect(height, v, temperature, respiratoryRate, additionalFactors, results)
    /\ UNCHANGED <<height, temperature, respiratoryRate, additionalFactors, effectPending>>

setTemperature(v) ==
    /\ v # temperature
    /\ temperature' = v
    /\ results' = useEffect(height, weight, v, respiratoryRate, additionalFactors, results)
    /\ UNCHANGED <<height, weight, respiratoryRate, additionalFactors, effectPending>>

setRespiratoryRate(v) ==
    /\ v # respiratoryRate
    /\ respiratoryRate' = v
    /\ results' = useEffect(height, weight, temperature, v, additionalFactors, results)
    /\ UNCHANGED <<height, weight, temperature, additionalFactors, effectPending>>

handleFactorChange(factor) ==
    /\ additionalFactors' = ToggleFactor(additionalFactors, factor)
    /\ results' = useEffect(height, weight, temperature, respiratoryRate,
                            ToggleFactor(additionalFactors, factor), results)
    /\ UNCHANGED <<height, weight, temperature, respiratoryRate, effectPending>>

EditHeight == \E v \in {<<>>} \cup Sample(HeightSamples, UIHeightCount) : setHeight(v)

EditWeight == \E v \in {<<>>} \cup Sample(WeightSamples, UIWeightCount) : setWeight(v)

EditTemperature ==
    \E v \in {<<>>, <<"3", "7">>} \cup Sample(TemperatureSamples, UITemperatureCount) :
        setTemperature(v)

EditRespiratoryRate ==
    \E v \in {<<>>} \cup Sample(RespiratoryRateSamples, UIRespiratoryRateCount) :
        setRespiratoryRate(v)

ToggleRiskFactor == \E factor \in Factors : handleFactorChange(factor)

Next ==
    \/ EditHeight
    \/ EditWeight
    \/ EditTemperature
    \/ EditRespiratoryRate
    \/ ToggleRiskFactor

Spec == Init /\ [][Next]_vars

\* The calculation on its own: the component has rendered with the inputs and
\* no result yet, and the effect of that render runs.
InitCalc ==
    /\ height \in Sample(HeightSamples, CalcHeightCount)
    /\ weight \in Sample(WeightSamples, CalcWeightCount)
    /\ temperature \in {<<>>} \cup Sample(TemperatureSamples, CalcTemperatureCount)
    /\ respiratoryRate \in {<<>>} \cup Sample(RespiratoryRateSamples, CalcRespiratoryRateCount)
    /\ additionalFactors \in [Factors -> BOOLEAN]
    /\ results = null
    /\ effectPending = TRUE

RunEffect ==
    /\ effectPending
    /\ results' = useEffect(height, weight, temperature, respiratoryRate,
                            additionalFactors, results)
    /\ effectPending' = FALSE
    /\ UNCHANGED <<height, weight, temperature, respiratoryRate, additionalFactors>>

NextCalc == RunEffect

SpecCalc == InitCalc /\ [][NextCalc]_vars

\* The band lookup on its own: every weight of 0.0 .. MaxWeightTenths / 10 kg.
InitRR ==
    /\ height = <<"7", "7">>
    /\ weight \in {TenthsStr(t) : t \in 0..MaxWeightTenths}
    /\ temperature = <<"3", "7">>
    /\ respiratoryRate = <<>>
    /\ additionalFactors = [f \in Factors |-> FALSE]
    /\ results = null
    /\ effectPending = TRUE

SpecRR == InitRR /\ [][NextCalc]_vars

----------------------------------------------------------------------------
(* The quantities of the calculation for the current field values *)

CurHeightCm == parseFloat(height)

CurWeightKg == parseFloat(weight)

CurTemp == parseFloat(temperature)

CurRR == OrElse(parseFloat(respiratoryRate), Lit(0, 1))

CurBsa == Sqrt(Div(Mul(CurHeightCm, CurWeightKg), Lit(3600, 1)))

CurBaseLow == Mul(CurBsa, Lit(400, 1))

CurBaseHigh == Mul(CurBsa, Lit(500, 1))

CurBand == getNormalRR(CurWeightKg)

CurFever == FeverAdjustmentOf(CurTemp)

CurRrAdjustment == RrAdjustmentOf(CurRR, CurBand, CurWeightKg)

CurRiskAdjustment == AdditionalAdjustmentOf(additionalFactors, CurBaseLow)

Present == height # <<>> /\ weight # <<>>

----------------------------------------------------------------------------
(* C1 *)

\* C1: whenever the height field or the weight field is empty, the result is
\* null (withheld), whatever was entered before.
C1_AbsentWithheld == (height = <<>> \/ weight = <<>>) => results = null

----------------------------------------------------------------------------
(* C2 *)

\* C2: with height and weight both present, the stored result is the
\* calculation applied to the current field values and flags alone, whatever
\* the earlier edits and results were.
C2_FreshResult ==
    Present =>
        results = calculateResults(height, weight, temperature, respiratoryRate,
                                   additionalFactors, null)

\* a result that replaced an earlier one: the temperature and a flag were
\* edited after the first result appeared
C2_Witness ==
    /\ Present
    /\ results # null
    /\ temperature = <<"3", "9">>
    /\ respiratoryRate # <<>>
    /\ additionalFactors.burns
    /\ ~additionalFactors.phototherapy

----------------------------------------------------------------------------
(* C3 *)

\* C3: the adjusted range is base * feverMultiplier + respiratory adjustment +
\* risk-factor adjustment with base = bsa * 400 for the low bound and bsa * 500
\* for the high bound: only the base term is scaled by the fever multiplier, both
\* bounds get the same two additive adjustments, and the hourly range is the
\* adjusted range divided by 24.
C3_FinalRange ==
    results # null =>
        LET mult == Add(Lit(1, 1), CurFever)
            low  == Add(Add(Mul(Mul(CurBsa, Lit(400, 1)), mult), CurRrAdjustment),
                        CurRiskAdjustment)
            high == Add(Add(Mul(Mul(CurBsa, Lit(500, 1)), mult), CurRrAdjustment),
                        CurRiskAdjustment)
        IN  /\ results.adjustedIWL_low = toFixed(low, 0)
            /\ results.adjustedIWL_high = toFixed(high, 0)
            /\ results.hourlyRate_low = toFixed(Div(low, Lit(24, 1)), 1)
            /\ results.hourlyRate_high = toFixed(Div(high, Lit(24, 1)), 1)
            /\ Sub(high, low) = Sub(Mul(CurBaseHigh, mult), Mul(CurBaseLow, mult))

\* a result in which fever, tachypnea and a risk factor all contribute
C3_Witness ==
    /\ results # null
    /\ ~IsNaN(results.adjustedIWL_low)
    /\ results.feverAdjustment.v > 0
    /\ results.rrAdjustment.v > 0
    /\ results.additionalAdjustment.v > 0
    /\ results.adjustedIWL_high.v > results.adjustedIWL_low.v

----------------------------------------------------------------------------
(* C4 *)

\* the table of section 4.1: exclusive upper weight bound (kg), band, label;
\* the last row has no upper bound
BandTable ==
    <<[below |-> 3, min |-> 30, max |-> 60, age |-> "Newborn"],
      [below |-> 5, min |-> 30, max |-> 50, age |-> "0-3 months"],
      [below |-> 8, min |-> 25, max |-> 40, age |-> "3-6 months"],
      [below |-> 12, min |-> 20, max |-> 35, age |-> "6-12 months"],
      [below |-> 20, min |-> 20, max |-> 30, age |-> "1-3 years"],
      [below |-> 0, min |-> 15, max |-> 25, age |-> "3+ years"]>>

\* row i covers the weights w (in units of 1 / Scale kg) from the bound of the
\* row before it up to its own bound
InRow(i, w) ==
    /\ (i > 1 => w >= BandTable[i - 1].below * Scale)
    /\ (i < Len(BandTable) => w < BandTable[i].below * Scale)

\* C4: every non-negative weight lies in exactly one row of the table and
\* getNormalRR returns that row's band; a weight on a threshold gets the
\* higher-weight band; no heavier weight has a larger maxRate.
C4_BandLookup ==
    (results # null /\ ~IsNaN(CurWeightKg) /\ CurWeightKg.v >= 0) =>
        LET w == CurWeightKg.v
            rows == {i \in 1..Len(BandTable) : InRow(i, w)}
        IN  /\ Cardinality(rows) = 1
            /\ \A i \in rows :
                  /\ results.normalRR.min = BandTable[i].min
                  /\ results.normalRR.max = BandTable[i].max
                  /\ results.normalRR.age = BandTable[i].age
                  /\ \A j \in 1..(i - 1) : w >= BandTable[j].below * Scale
            /\ \A t \in 0..MaxWeightTenths :
                  Lit(t, 10).v >= w => getNormalRR(Lit(t, 10)).max <= results.normalRR.max

\* a weight exactly on a threshold, looked up: 3 kg is in the 0-3 months band
C4_Witness ==
    /\ results # null
    /\ weight = <<"3">>
    /\ results.normalRR.max = 50
    /\ results.normalRR.age = "0-3 months"

----------------------------------------------------------------------------
(* C5 *)

\* C5: the respiratory adjustment is 0 when the rate is absent, 0, or not above
\* the maxRate of the band of the patient's weight, and otherwise exactly
\* (rate - band.maxRate) * 2 * weightKg for that band.
C5_RespiratoryAdjustment ==
    results # null =>
        LET rate == parseFloat(respiratoryRate)
            max  == Lit(results.normalRR.max, 1)
            adj  == IF respiratoryRate = <<>> \/ IsNaN(rate) THEN Lit(0, 1)
                    ELSE IF rate.v <= max.v THEN Lit(0, 1)
                    ELSE Mul(Mul(Sub(rate, max), Lit(2, 1)), CurWeightKg)
        IN  /\ results.normalRR = getNormalRR(CurWeightKg)
            /\ CurRrAdjustment = adj
            /\ results.rrAdjustment = toFixed(adj, 0)

\* a rate above the band's maxRate and a rate inside the band were both looked up
C5_Witness ==
    /\ results # null
    /\ respiratoryRate = <<"5", "5">>
    /\ weight = <<"8", ".", "5">>
    /\ results.rrAdjustment = Lit(340, 1)

----------------------------------------------------------------------------
(* C6 *)

\* the fraction of each risk factor, in hundredths
FractionPercent(f) ==
    CASE f = "phototherapy" -> 20
      [] f = "radiantWarmer" -> 30
      [] f = "lowHumidity" -> 25
      [] f = "burns" -> 50

RECURSIVE SumPercent(_)
SumPercent(S) ==
    IF S = {} THEN 0
    ELSE LET f == CHOOSE x \in S : TRUE
         IN  FractionPercent(f) + SumPercent(S \ {f})

Selected == {f \in Factors : additionalFactors[f]}

\* C6: the risk-factor adjustment is baseIWL_low (before the fever multiplier)
\* times the sum of the fractions of exactly the selected flags, for every flag
\* subset, with no cap (1.25 * baseIWL_low for all four); temperature and
\* respiratory rate have no part in it.
C6_RiskFactorAdjustment ==
    (results # null /\ ~IsNaN(CurBsa)) =>
        LET expected == Mul(Mul(CurBsa, Lit(400, 1)), Lit(SumPercent(Selected), 100))
        IN  /\ CurRiskAdjustment = expected
            /\ results.additionalAdjustment = toFixed(expected, 0)
            /\ (Selected = Factors => expected = Mul(CurBaseLow, Lit(125, 100)))
            /\ (Selected = {} => expected = Lit(0, 1))

\* all four flags selected, with fever and tachypnea present, on a positive base
C6_Witness ==
    /\ results # null
    /\ Selected = Factors
    /\ ~IsNaN(CurBsa)
    /\ results.additionalAdjustment.v > 0
    /\ results.feverAdjustment.v > 0
    /\ results.rrAdjustment.v > 0

----------------------------------------------------------------------------
(* C7 *)

\* the result for the current fields with the temperature replaced by t
ResultAtTemperature(t) ==
    calculateResults(height, weight, t, respiratoryRate, additionalFactors, null)

\* C7: the fever fraction is 0 (multiplier exactly 1) when the temperature is
\* unset or at most 37, and (temperature - 37) * 0.13 above 37, strictly
\* increasing; the temperature changes neither the base range nor the
\* weight-based range [weightKg * 15, weightKg * 20].
C7_FeverMultiplier ==
    results # null =>
        /\ (temperature = <<>> \/ CurTemp.v <= 37 * Scale) =>
              /\ Add(Lit(1, 1), CurFever) = Lit(1, 1)
              /\ results.feverAdjustment = Lit(0, 1)
              /\ LET normal == ResultAtTemperature(<<"3", "7">>)
                 IN  /\ results.adjustedIWL_low = normal.adjustedIWL_low
                     /\ results.adjustedIWL_high = normal.adjustedIWL_high
        /\ (temperature # <<>> /\ CurTemp.v > 37 * Scale) =>
              /\ CurFever.v * 100 = (CurTemp.v - 37 * Scale) * 13
              /\ CurFever.v > 0
              /\ \A t \in Sample(TemperatureSamples, Len(TemperatureSamples)) :
                    parseFloat(t).v > CurTemp.v =>
                        FeverAdjustmentOf(parseFloat(t)).v > CurFever.v
        /\ \A t \in {<<>>} \cup Sample(TemperatureSamples, Len(TemperatureSamples)) :
              LET other == ResultAtTemperature(t)
              IN  /\ other.bsa = results.bsa
                  /\ other.baseIWL_low = results.baseIWL_low
                  /\ other.baseIWL_high = results.baseIWL_high
                  /\ other.weightBasedIWL_low = results.weightBasedIWL_low
                  /\ other.weightBasedIWL_high = results.weightBasedIWL_high
        /\ results.weightBasedIWL_low = toFixed(Mul(CurWeightKg, Lit(15, 1)), 0)
        /\ results.weightBasedIWL_high = toFixed(Mul(CurWeightKg, Lit(20, 1)), 0)

\* a febrile result: 39 degrees gives a fever fraction of 26 percent
C7_Witness ==
    /\ results # null
    /\ temperature = <<"3", "9">>
    /\ results.feverAdjustment = Lit(26, 1)
    /\ ~IsNaN(results.adjustedIWL_low)
    /\ results.adjustedIWL_low.v > results.baseIWL_low.v

----------------------------------------------------------------------------
(* C8 *)

ZeroEntered ==
    /\ Present
    /\ ~IsNaN(CurHeightCm)
    /\ ~IsNaN(CurWeightKg)
    /\ (CurHeightCm.v = 0 \/ CurWeightKg.v = 0)

\* C8: when height or weight is entered as zero (the other one present), the
\* effect does not withhold the result: it stores one with bsa = 0 and base
\* range [0, 0], every value of it a number.
C8_ZeroNotValidated ==
    (ZeroEntered /\ ~effectPending) =>
        /\ results # null
        /\ results.bsa = Lit(0, 1)
        /\ results.baseIWL_low = Lit(0, 1)
        /\ results.baseIWL_high = Lit(0, 1)
        /\ ~IsNaN(results.adjustedIWL_low)
        /\ ~IsNaN(results.adjustedIWL_high)
        /\ ~IsNaN(results.hourlyRate_low)
        /\ ~IsNaN(results.hourlyRate_high)

\* a result computed from a zero weight
C8_Witness ==
    /\ ~effectPending
    /\ results # null
    /\ weight = <<"0">>
    /\ height = <<"7", "7">>
    /\ results.bsa = Lit(0, 1)
    /\ results.baseIWL_high = Lit(0, 1)

----------------------------------------------------------------------------
(* C9 *)

RECURSIVE ToggleAll(_, _)
\* the flags after toggling every factor of the set S once
ToggleAll(flags, S) ==
    IF S = {} THEN flags
    ELSE LET f == CHOOSE x \in S : TRUE
         IN  ToggleAll(ToggleFactor(flags, f), S \ {f})

C9_ToggleAlgebra ==
    /\ \A f \in Factors :
          /\ ToggleFactor(additionalFactors, f)[f] = ~additionalFactors[f]
          /\ \A g \in Factors \ {f} : ToggleFactor(additionalFactors, f)[g] = additionalFactors[g]
          /\ ToggleFactor(ToggleFactor(additionalFactors, f), f) = additionalFactors
          /\ \A g \in Factors :
                ToggleFactor(ToggleFactor(additionalFactors, f), g)
                    = ToggleFactor(ToggleFactor(additionalFactors, g), f)
    /\ \A target \in [Factors -> BOOLEAN] :
          ToggleAll(additionalFactors, {f \in Factors : target[f] # additionalFactors[f]})
              = target

C9_ToggleStep ==
    additionalFactors' # additionalFactors =>
        /\ Cardinality({f \in Factors : additionalFactors'[f] # additionalFactors[f]}) = 1
        /\ UNCHANGED <<height, weight, temperature, respiratoryRate>>

\* C9: a toggle flips the named flag and nothing else (the other flags and the
\* four fields stay), toggling twice restores the flags, toggles of two factors
\* commute, and toggling the flags that differ leads from the current flag set
\* to any of the 16.
C9_ToggleFrame == [](C9_ToggleAlgebra) /\ [][C9_ToggleStep]_vars

\* all four flags toggled on from the all-false start, one toggled off again
C9_Witness ==
    /\ additionalFactors.phototherapy
    /\ additionalFactors.radiantWarmer
    /\ additionalFactors.burns
    /\ ~additionalFactors.lowHumidity
    /\ Present
    /\ results # null
    /\ results.additionalAdjustment.v > 0

----------------------------------------------------------------------------
(* C10 *)

\* C10: for height > 0, weight > 0 and a respiratory rate >= 0, the fever
\* fraction and both adjustments are >= 0, the adjusted bounds are not below
\* the base bounds, and base, adjusted and hourly ranges are ordered low <= high.
C10_AdjustmentsNonNegative ==
    (/\ results # null
     /\ ~IsNaN(CurHeightCm) /\ CurHeightCm.v > 0
     /\ ~IsNaN(CurWeightKg) /\ CurWeightKg.v > 0
     /\ CurRR.v >= 0) =>
        /\ CurFever.v >= 0
        /\ CurRrAdjustment.v >= 0
        /\ CurRiskAdjustment.v >= 0
        /\ results.feverAdjustment.v >= 0
        /\ results.rrAdjustment.v >= 0
        /\ results.additionalAdjustment.v >= 0
        /\ results.adjustedIWL_low.v >= results.baseIWL_low.v
        /\ results.adjustedIWL_high.v >= results.baseIWL_high.v
        /\ results.baseIWL_low.v <= results.baseIWL_high.v
        /\ results.adjustedIWL_low.v <= results.adjustedIWL_high.v
        /\ results.hourlyRate_low.v <= results.hourlyRate_high.v

\* a result for a positive height and weight with a rate below the band and a
\* temperature below 37
C10_Witness ==
    /\ results # null
    /\ height = <<"7", "7">>
    /\ weight = <<"8", ".", "5">>
    /\ temperature = <<"3", "6", ".", "5">>
    /\ respiratoryRate = <<"2", "5">>
    /\ results.baseIWL_low.v > 0
    /\ results.baseIWL_high.v > results.baseIWL_low.v

====
